---- MODULE Spec2Model ----
(***************************************************************************)
(* Model of app/main.py: the webhook receiver that cleans an inbound text  *)
(* and keeps it in BASE_DIR/context.txt, and the reader of that file.      *)
(*                                                                         *)
(* Text is a sequence of code points, so that the character tests of       *)
(* clean_text (" " <= ch <= "~", ord(ch) > 0x7f) are the source's own.     *)
(***************************************************************************)
EXTENDS Integers, Sequences, FiniteSets, TLC

(***************************************************************************)
(* Characters and strings                                                  *)
(***************************************************************************)
\* The characters the source names: "\t", "\n", "\r", " ", "~", "/", "\\", "_".
TAB == 9
LF == 10
CR == 13
SP == 32
TILDE == 126
SLASH == 47
BACKSLASH == 92
UNDERSCORE == 95

\* Characters that only inputs hold: a C0 control character, letters, the dot
\* and a non-ASCII white space (U+00A0).
InputChar == [nul |-> 0, dot |-> 46, a |-> 97, f |-> 102, l |-> 108, s |-> 115,
              t |-> 116, x |-> 120, nbsp |-> 160]
NUL == InputChar.nul
DOT == InputChar.dot
LetterA == InputChar.a
NBSP == InputChar.nbsp

\* Bound: longest text given to clean_text on its own.
MaxTextLen == 4

\* The characters the model draws texts from: a control character, tab, LF, CR,
\* space, a printable letter and a non-ASCII white space (U+00A0).
Alphabet == {NUL, TAB, LF, CR, SP, LetterA, NBSP}

RECURSIVE TextsOver(_, _)
TextsOver(chars, n) ==
  IF n = 0 THEN {<<>>}
  ELSE LET shorter == TextsOver(chars, n - 1)
       IN shorter \cup {<<c>> \o t : c \in chars, t \in {u \in shorter : Len(u) = n - 1}}

\* Python values that reach the text functions: None, or a str.
None == [t |-> "None", v |-> <<>>]
Str(s) == [t |-> "str", v |-> s]

\* str.isspace() of one character (Unicode white space below U+00A1).
IsSpace(ch) == ch \in {9, 10, 11, 12, 13, 28, 29, 30, 31, 32, 133, 160}

RECURSIVE RStrip(_)
RStrip(s) ==
  IF s = <<>> THEN <<>>
  ELSE IF IsSpace(s[Len(s)]) THEN RStrip(SubSeq(s, 1, Len(s) - 1)) ELSE s

RECURSIVE LStrip(_)
LStrip(s) ==
  IF s = <<>> THEN <<>>
  ELSE IF IsSpace(s[1]) THEN LStrip(Tail(s)) ELSE s

Strip(s) == LStrip(RStrip(s))

\* s.replace("\r\n", "\n")
RECURSIVE ReplaceCRLF(_)
ReplaceCRLF(s) ==
  IF s = <<>> THEN <<>>
  ELSE IF Len(s) >= 2 /\ s[1] = CR /\ s[2] = LF
       THEN <<LF>> \o ReplaceCRLF(SubSeq(s, 3, Len(s)))
       ELSE <<s[1]>> \o ReplaceCRLF(Tail(s))

\* s.replace(old, new) for single characters
ReplaceChar(s, old, new) == [i \in 1..Len(s) |-> IF s[i] = old THEN new ELSE s[i]]

\* s.split(sep): the pieces between the separators, at least one piece.
RECURSIVE SplitFrom(_, _, _)
SplitFrom(s, sep, cur) ==
  IF s = <<>> THEN <<cur>>
  ELSE IF s[1] = sep THEN <<cur>> \o SplitFrom(Tail(s), sep, <<>>)
       ELSE SplitFrom(Tail(s), sep, Append(cur, s[1]))

Split(s, sep) == SplitFrom(s, sep, <<>>)

\* sep.join(parts)
RECURSIVE Join(_, _)
Join(parts, sep) ==
  IF parts = <<>> THEN <<>>
  ELSE IF Len(parts) = 1 THEN parts[1]
       ELSE parts[1] \o <<sep>> \o Join(Tail(parts), sep)

(***************************************************************************)
(* clean_text                                                              *)
(***************************************************************************)
\* The character filter of the loop over s.
KeepChar(ch) == ch = LF \/ ch = TAB \/ (SP <= ch /\ ch <= TILDE) \/ ch > 127

\* The loop over lines with its blank_seq counter.
RECURSIVE CollapseBlank(_, _, _)
CollapseBlank(lines, blank_seq, out_lines) ==
  IF lines = <<>> THEN out_lines
  ELSE LET ln == lines[1]
           seq == IF Strip(ln) = <<>> THEN blank_seq + 1 ELSE 0
       IN IF seq > 1
          THEN CollapseBlank(Tail(lines), seq, out_lines)
          ELSE CollapseBlank(Tail(lines), seq, Append(out_lines, ln))

\* [ln.rstrip() for ln in s.split("\n")] with the rstrip left out.
RStripLinesOmitted(split) == split

\* [ln.rstrip() for ln in ...]
RStripLines(split) == [i \in 1..Len(split) |-> RStrip(split[i])]

clean_text(text) ==
  IF text.t = "None" THEN <<>>
  ELSE LET s1 == ReplaceChar(ReplaceCRLF(text.v), CR, LF)
           s2 == SelectSeq(s1, KeepChar)
           split == Split(s2, LF)
           lines == RStripLines(split)
           out_lines == CollapseBlank(lines, 0, <<>>)
       IN Strip(Join(out_lines, LF))
            \o (IF out_lines # <<>> /\ out_lines[Len(out_lines)] = <<>>
                THEN <<LF>> ELSE <<>>)

(***************************************************************************)
(* pathlib: a path is its root flag and its segments; a segment is a text. *)
(***************************************************************************)
\* Path(str): split on "/", the empty and "." segments dropped, ".." kept.
IsNamedSegment(seg) == seg # <<>> /\ seg # <<DOT>>

ParsePath(str) ==
  [abs |-> str # <<>> /\ str[1] = SLASH,
   segs |-> SelectSeq(Split(str, SLASH), IsNamedSegment)]

\* base / other: an absolute right operand replaces the left one.
PathJoin(base, other) ==
  IF other.abs THEN other
  ELSE [abs |-> base.abs, segs |-> base.segs \o other.segs]

DotDot == <<DOT, DOT>>

\* Path.resolve() walks the segments from the root (or the working directory):
\* ".." leaves the directory reached so far (the root is its own parent), a
\* symbolic link is replaced by its target, any other name is appended, whether
\* it exists or not.  links maps the absolute location of each symbolic link to
\* its target path; the tables used are free of cycles.
RECURSIVE ResolveFrom(_, _, _)
ResolveFrom(links, cur, rest) ==
  IF rest = <<>> THEN cur
  ELSE LET seg == rest[1]
           next == Append(cur, seg)
       IN IF seg = DotDot
          THEN ResolveFrom(links, IF cur = <<>> THEN <<>> ELSE SubSeq(cur, 1, Len(cur) - 1),
                           Tail(rest))
          ELSE IF next \in DOMAIN links
               THEN ResolveFrom(links, IF links[next].abs THEN <<>> ELSE cur,
                                links[next].segs \o Tail(rest))
               ELSE ResolveFrom(links, next, Tail(rest))

\* p.resolve(): always absolute.
Resolve(links, cwd, p) ==
  [abs |-> TRUE, segs |-> ResolveFrom(links, IF p.abs THEN <<>> ELSE cwd, p.segs)]

\* p.parents: every proper ancestor of p.
Parents(p) == {[abs |-> p.abs, segs |-> SubSeq(p.segs, 1, k)] : k \in 0..(Len(p.segs) - 1)}

\* candidate = (base / filename) with the .resolve() left out.
CandidateUnresolved(links, cwd, base, filename) == PathJoin(base, ParsePath(filename))

\* candidate = (base / filename).resolve()
Candidate(links, cwd, base, filename) == Resolve(links, cwd, PathJoin(base, ParsePath(filename)))

\* _safe_resolve(base, filename): the candidate, or ValueError("invalid filename").
\* base.resolve() raises only where the candidate's resolve() has raised before it,
\* so base_resolved is always the resolved base.
_safe_resolve(links, cwd, base, filename) ==
  LET candidate == Candidate(links, cwd, base, filename)
      base_resolved == Resolve(links, cwd, base)
  IN IF base_resolved = candidate \/ base_resolved \in Parents(candidate)
     THEN [ok |-> TRUE, path |-> candidate]
     ELSE [ok |-> FALSE, path |-> candidate]

(***************************************************************************)
(* JSON values as Python holds them: v is the text of a str, the mapping   *)
(* of a dict (a function on its keys), the items of a list.                *)
(***************************************************************************)
Int5 == [t |-> "int", v |-> <<>>]      \* a number other than 0: not a str, truthy
Dict(d) == [t |-> "dict", v |-> d]
List(l) == [t |-> "list", v |-> l]
Malformed == [t |-> "malformed", v |-> <<>>]   \* a body request.json() cannot parse

\* d.get(key, default)
Get(d, key, default) == IF key \in DOMAIN d THEN d[key] ELSE default

\* bool(x)
Truthy(x) ==
  CASE x.t = "None" -> FALSE
    [] x.t = "str" -> x.v # <<>>
    [] x.t = "int" -> TRUE
    [] x.t = "list" -> x.v # <<>>
    [] x.t = "dict" -> DOMAIN x.v # {}

\* a or b
Or(a, b) == IF Truthy(a) THEN a ELSE b

(***************************************************************************)
(* sanitize_filename                                                       *)
(***************************************************************************)
NameLimit == 200

FileBin == <<102, 105, 108, 101, 46, 98, 105, 110>>       \* "file.bin"

\* name[:200]
Truncate(name) == SubSeq(name, 1, IF Len(name) < NameLimit THEN Len(name) ELSE NameLimit)

\* sanitize_filename(name): the name, or the AttributeError of a value that is
\* truthy and has no replace().
sanitize_filename(name) ==
  LET n0 == Or(name, Str(FileBin))
  IN IF n0.t # "str" THEN [ok |-> FALSE, name |-> <<>>]
     ELSE LET n1 == Strip(ReplaceChar(ReplaceChar(n0.v, SLASH, UNDERSCORE),
                                      BACKSLASH, UNDERSCORE))
          IN [ok |-> TRUE, name |-> IF n1 # <<>> THEN Truncate(n1) ELSE FileBin]

(***************************************************************************)
(* extract_context_from_proxiedmail                                        *)
(***************************************************************************)
SubjectPrefix == <<83, 117, 98, 106, 101, 99, 116, 58, 32>>    \* "Subject: "

\* pm.payload values of the model are str, so str(x) is x.
extract_context_from_proxiedmail(p) ==
  LET body_plain == Or(Or(Get(p, "body-plain", None), Get(p, "body_plain", None)), Str(<<>>))
      body_html == Or(Or(Get(p, "body-html", None), Get(p, "body_html", None)), Str(<<>>))
      subject == Or(Or(Get(p, "Subject", None), Get(p, "subject", None)), Str(<<>>))
      body == IF Strip(body_plain.v) # <<>> THEN body_plain ELSE body_html
      parts == (IF Truthy(subject) THEN <<RStrip(SubjectPrefix \o subject.v), <<>> >> ELSE <<>>)
                 \o <<body.v>>
  IN Join(parts, LF)

(***************************************************************************)
(* The directories and the file                                            *)
(***************************************************************************)
Tmp == <<116, 109, 112>>                                        \* "tmp"
Files == <<102, 105, 108, 101, 115>>                            \* "files"
Attachments == <<97, 116, 116, 97, 99, 104, 109, 101, 110, 116, 115>>   \* "attachments"
ContextTxt == <<99, 111, 110, 116, 101, 120, 116, 46, 116, 120, 116>>   \* "context.txt"

BASE_DIR == PathJoin(ParsePath(<<SLASH>> \o Tmp), ParsePath(Files))
ATTACH_DIR == PathJoin(BASE_DIR, ParsePath(Attachments))

\* The server creates no symbolic link, and its working directory is not used:
\* BASE_DIR is absolute.
NoLinks == <<>>
ServerCwd == <<>>

(***************************************************************************)
(* State                                                                   *)
(***************************************************************************)
VARIABLES
  ctxFile,       \* BASE_DIR/context.txt: whether it exists, and its text
  dirs,          \* the directories made so far, among "base" and "attachments"
  attachFiles,   \* the names of the files written into ATTACH_DIR
  reqs,          \* the requests in flight, one per connection slot
  lastWrite,     \* history: the text of the last completed write and what it came from
  cleanIn, cleanOut, cleanTwice, cleanPc,          \* SpecClean
  pathLinks, pathLinks0, pathBase, pathName, pathOut, pathPc,  \* SpecPath
  nameIn, nameOut, namePc                          \* SpecName

serverVars == <<ctxFile, dirs, attachFiles, reqs, lastWrite>>
cleanVars == <<cleanIn, cleanOut, cleanTwice, cleanPc>>
pathVars == <<pathLinks, pathLinks0, pathBase, pathName, pathOut, pathPc>>
nameVars == <<nameIn, nameOut, namePc>>
vars == <<serverVars, cleanVars, pathVars, nameVars>>

\* Bound: the requests that may overlap.
MaxInFlight == 2
Slots == 1..MaxInFlight

IdleReq ==
  [pc |-> "idle", op |-> "none", body |-> None, cleaned |-> <<>>, raw |-> <<>>,
   atts |-> <<>>, filename |-> <<>>, texts |-> <<>>,
   status |-> 0, context |-> <<>>, failed |-> FALSE,
   before |-> [exists |-> FALSE, text |-> <<>>], seen |-> <<>>]

ServerInit ==
  /\ ctxFile = [exists |-> FALSE, text |-> <<>>]
  /\ dirs = {}
  /\ attachFiles = {}
  /\ reqs = [r \in Slots |-> IdleReq]
  /\ lastWrite = [done |-> FALSE, text |-> <<>>, raw |-> <<>>, texts |-> <<>>]

ServerIdle == ServerInit

CleanIdle == cleanIn = None /\ cleanOut = <<>> /\ cleanTwice = <<>> /\ cleanPc = "off"

PathIdle ==
  /\ pathLinks = <<>>
  /\ pathLinks0 = <<>>
  /\ pathBase = BASE_DIR
  /\ pathName = <<>>
  /\ pathOut = [ok |-> FALSE, path |-> BASE_DIR]
  /\ pathPc = "off"

NameIdle == nameIn = None /\ nameOut = [ok |-> FALSE, name |-> <<>>] /\ namePc = "off"

(***************************************************************************)
(* POST /webhook                                                           *)
(*                                                                         *)
(* The handlers are coroutines of one event loop: the code between two     *)
(* awaits runs without interleaving.  webhook awaits request.json() and    *)
(* download_attachment(url); get_latest_context awaits nothing.            *)
(***************************************************************************)
\* What one run of the handler's code between two awaits leaves behind.
Outcome ==
  [pc |-> "done", status |-> 0, cleaned |-> <<>>, raw |-> <<>>, atts |-> <<>>,
   filename |-> <<>>, texts |-> <<>>, write |-> FALSE, text |-> <<>>, mk |-> {},
   files |-> {}]

\* raise HTTPException(status_code=...), or an exception nothing catches, which
\* the framework answers with 500.
Raise(status, mk) == [Outcome EXCEPT !.status = status, !.mk = mk]

\* path.write_text(cleaned, encoding="utf-8") opened for appending instead.
WriteTextAppended(file, text) == [exists |-> TRUE, text |-> file.text \o text]

\* path.write_text(cleaned, encoding="utf-8"): the file holds exactly the text.
WriteText(file, text) == [exists |-> TRUE, text |-> text]

\* The end of webhook: BASE_DIR.mkdir, _safe_resolve, write_text, 200.
StoreContext(cleaned, raw, texts, mk) ==
  LET path == _safe_resolve(NoLinks, ServerCwd, BASE_DIR, ContextTxt)
  IN IF ~path.ok THEN Raise(400, mk \cup {"base"})
     ELSE [Outcome EXCEPT !.status = 200, !.write = TRUE, !.text = cleaned,
                          !.raw = raw, !.texts = texts, !.mk = mk \cup {"base"}]

\* The loop over the attachments, from the entries atts still to visit, up to
\* the next await of download_attachment, an exception, or the end of the loop
\* and of the handler.
RECURSIVE AttachLoop(_, _, _, _)
AttachLoop(cleaned, raw, atts, texts) ==
  IF atts = <<>>
  THEN StoreContext(cleaned \o <<LF>> \o Join(texts, LF), raw, texts, {"base", "attachments"})
  ELSE LET a == atts[1]
           filename == sanitize_filename(Get(a.v, "filename", None))
           url == Get(a.v, "url", None)
       IN IF a.t # "dict" THEN AttachLoop(cleaned, raw, Tail(atts), texts)
          ELSE IF ~filename.ok THEN Raise(500, {"base", "attachments"})
          ELSE IF ~Truthy(url) THEN AttachLoop(cleaned, raw, Tail(atts), texts)
          ELSE [Outcome EXCEPT !.pc = "download", !.cleaned = cleaned, !.raw = raw,
                               !.atts = Tail(atts), !.filename = filename.name,
                               !.texts = texts, !.mk = {"base", "attachments"}]

\* The else branch of webhook, had it stored an empty context before refusing.
UnsupportedPayloadAfterWrite == [Raise(400, {"base"}) EXCEPT !.write = TRUE]

\* The else branch of webhook: neither shape.
UnsupportedPayload == Raise(400, {})

\* LegacyWebhook.model_validate(data): context must be a str.
LegacyValid(d) == d["context"].t = "str"

\* ProxiedMailWebhook.model_validate(data): id is a str or None; payload is a
\* dict already.
ProxiedMailValid(d) == Get(d, "id", None).t \in {"None", "str"}

\* webhook from the parsed body to its first await or its end.
WebhookBegin(data) ==
  IF data.t = "malformed" THEN Raise(400, {})
  ELSE IF data.t = "dict" /\ "context" \in DOMAIN data.v
  THEN IF ~LegacyValid(data.v) THEN Raise(500, {})
       ELSE StoreContext(clean_text(data.v["context"]), data.v["context"].v, <<>>, {})
  ELSE IF data.t = "dict" /\ "payload" \in DOMAIN data.v /\ data.v["payload"].t = "dict"
  THEN IF ~ProxiedMailValid(data.v) THEN Raise(500, {})
       ELSE LET context == extract_context_from_proxiedmail(data.v["payload"].v)
                cleaned == clean_text(Str(context))
                attachments == Get(data.v, "attachments", List(<<>>))
            IN AttachLoop(cleaned, context,
                          IF attachments.t = "list" THEN attachments.v ELSE <<>>, <<>>)
  ELSE UnsupportedPayload

\* file_path = ATTACH_DIR / filename names a directory, which write_bytes refuses.
IsDirectory(path) == path \in {BASE_DIR, ATTACH_DIR}

\* What extract_text_from_file gives for the bytes downloaded: a text (empty for
\* a kind it does not read), or an exception, which the handler swallows.
ExtractOutcomes ==
  {[ok |-> FALSE, text |-> <<>>], [ok |-> TRUE, text |-> <<>>], [ok |-> TRUE, text |-> <<LetterA>>]}

\* webhook after a download that returned: write_bytes, the extraction, and on
\* to the next await or the end.
AfterDownload(req, extracted) ==
  IF IsDirectory(Resolve(NoLinks, ServerCwd, PathJoin(ATTACH_DIR, ParsePath(req.filename))))
  THEN Raise(500, {})
  ELSE [AttachLoop(req.cleaned, req.raw, req.atts,
                   IF extracted.ok /\ Strip(extracted.text) # <<>>
                   THEN Append(req.texts, extracted.text) ELSE req.texts)
          EXCEPT !.files = {req.filename}]

\* path.read_text(encoding="utf-8") with the white space stripped.
ReadTextStripped(file) == Strip(file.text)

\* path.read_text(encoding="utf-8")
ReadText(file) == file.text

\* get_latest_context: the status and the "context" of the answer.
LatestContext(file) ==
  LET path == _safe_resolve(NoLinks, ServerCwd, BASE_DIR, ContextTxt)
  IN IF ~path.ok THEN [status |-> 400, context |-> <<>>]
     ELSE IF ~file.exists THEN [status |-> 200, context |-> <<>>]
     ELSE [status |-> 200, context |-> ReadText(file)]

\* The effect of an outcome on the request r and on the file system.
Apply(r, out, failed) ==
  /\ reqs' = [reqs EXCEPT ![r] =
                [@ EXCEPT !.pc = out.pc, !.status = out.status,
                          !.cleaned = IF out.pc = "done" THEN <<>> ELSE out.cleaned,
                          !.raw = IF out.pc = "done" THEN <<>> ELSE out.raw,
                          !.atts = out.atts, !.filename = out.filename,
                          !.texts = IF out.pc = "done" THEN <<>> ELSE out.texts,
                          !.failed = failed]]
  /\ ctxFile' = IF out.write THEN WriteText(ctxFile, out.text) ELSE ctxFile
  /\ dirs' = dirs \cup out.mk
  /\ attachFiles' = attachFiles \cup out.files
  /\ lastWrite' = IF out.write
                  THEN [done |-> TRUE, text |-> out.text, raw |-> out.raw, texts |-> out.texts]
                  ELSE lastWrite

\* A client sends POST /webhook with the body data; the handler awaits request.json().
PostWebhook(r, data) ==
  /\ reqs[r].pc = "idle"
  /\ reqs' = [reqs EXCEPT ![r] = [IdleReq EXCEPT !.pc = "json", !.op = "webhook",
                                                 !.body = data, !.before = ctxFile]]
  /\ UNCHANGED <<ctxFile, dirs, attachFiles, lastWrite, cleanVars, pathVars, nameVars>>

\* request.json() returns or raises; the handler runs to its first download or
\* to its end.
WebhookBody(r) ==
  /\ reqs[r].pc = "json"
  /\ Apply(r, WebhookBegin(reqs[r].body), FALSE)
  /\ UNCHANGED <<cleanVars, pathVars, nameVars>>

\* download_attachment(url) raises (an error, a bad status, a timeout; NameError
\* where httpx is not bound, as in this module), and nothing in webhook catches it.
DownloadFailed == Raise(500, {})

\* download_attachment(url) ends: it raises, or it returns the bytes and the
\* handler runs on to the next download or to its end.
WebhookDownload(r) ==
  /\ reqs[r].pc = "download"
  /\ \/ Apply(r, DownloadFailed, TRUE)
     \/ \E extracted \in ExtractOutcomes :
          Apply(r, AfterDownload(reqs[r], extracted), reqs[r].failed)
  /\ UNCHANGED <<cleanVars, pathVars, nameVars>>

\* GET /latest-context: the whole handler, which has no await.
GetLatestContext(r) ==
  /\ reqs[r].pc = "idle"
  /\ LET answer == LatestContext(ctxFile)
     IN reqs' = [reqs EXCEPT ![r] = [IdleReq EXCEPT !.pc = "done", !.op = "get",
                                                    !.status = answer.status,
                                                    !.context = answer.context,
                                                    !.before = ctxFile,
                                                    !.seen = IF lastWrite.done
                                                             THEN lastWrite.text
                                                             ELSE <<>>]]
  /\ UNCHANGED <<ctxFile, dirs, attachFiles, lastWrite, cleanVars, pathVars, nameVars>>

\* The answer leaves; the slot is free again.
Respond(r) ==
  /\ reqs[r].pc = "done"
  /\ reqs' = [reqs EXCEPT ![r] = IdleReq]
  /\ UNCHANGED <<ctxFile, dirs, attachFiles, lastWrite, cleanVars, pathVars, nameVars>>

(***************************************************************************)
(* Spec: the server taking one request at a time, over a wide set of       *)
(* bodies.  SpecOverlap: requests that overlap, over a few bodies.         *)
(***************************************************************************)
\* Bound: longest "context" text of a request.
MaxContextLen == 2

\* Bound: most entries in "attachments".
MaxAttachments == 2

ContextTexts == TextsOver({LF, SP, LetterA}, MaxContextLen)

PayloadKeys == {"body-plain", "body_plain", "body-html", "body_html", "Subject", "subject"}
\* The payloads: every choice of keys with a one-letter text, and the mails
\* whose plain body is empty or blank beside an HTML body.
PayloadDicts ==
  UNION {[K -> {Str(<<LetterA>>)}] : K \in SUBSET PayloadKeys}
    \cup {("body-plain" :> Str(b)) @@ ("body-html" :> Str(<<LetterA, SP>>)) : b \in {<<>>, <<SP>>}}
    \cup {("body_plain" :> Str(<<SP, LetterA>>)) @@ ("Subject" :> Str(<<LetterA, SP>>))}

PlainMail == "body-plain" :> Str(<<LetterA>>)
Url == Str(<<InputChar.x>>)

\* An entry of "attachments": not a mapping; a mapping without "url" or with an
\* empty one; a mapping with a URL and no "filename", or one that is a number,
\* "..", or a name.
AttachmentDicts ==
  {<<>>, "url" :> Url, ("filename" :> Str(<<LetterA>>)) @@ ("url" :> Str(<<>>))}
    \cup {("filename" :> f) @@ ("url" :> Url) : f \in {Int5, Str(DotDot), Str(<<LetterA>>)}}
AttachmentEntries == {Int5} \cup {Dict(a) : a \in AttachmentDicts}

RECURSIVE ListsOver(_, _)
ListsOver(items, n) ==
  IF n = 0 THEN {<<>>}
  ELSE LET shorter == ListsOver(items, n - 1)
       IN shorter \cup {Append(l, x) : l \in {m \in shorter : Len(m) = n - 1}, x \in items}

\* The bodies of POST /webhook.
Bodies ==
  {Malformed, Int5, List(<<>>), Dict(<<>>)}
    \cup {Dict("context" :> c) : c \in {None, Int5} \cup {Str(t) : t \in ContextTexts}}
    \cup {Dict(("context" :> c) @@ ("payload" :> Dict(PlainMail))) : c \in {Int5, Str(<<LetterA>>)}}
    \cup {Dict("payload" :> x) : x \in {None, Int5, List(<<>>)}}
    \cup {Dict("payload" :> Dict(p)) : p \in PayloadDicts}
    \cup {Dict(("payload" :> Dict(PlainMail)) @@ ("id" :> i)) : i \in {None, Int5, Url}}
    \cup {Dict(("payload" :> Dict(PlainMail)) @@ ("attachments" :> a)) :
            a \in {Int5} \cup {List(l) : l \in ListsOver(AttachmentEntries, MaxAttachments)}}

\* The bodies of the overlapping requests: two Legacy texts, a Relayed mail with
\* one attachment to download, and a body of neither shape.
OverlapBodies ==
  {Dict("context" :> Str(<<LetterA>>)),
   Dict("context" :> Str(<<LetterA, LF, LF, LetterA>>)),
   Dict(("payload" :> Dict(PlainMail))
          @@ ("attachments" :> List(<<Dict(("filename" :> Str(<<LetterA>>)) @@ ("url" :> Url))>>))),
   Dict(<<>>)}

Init == ServerInit /\ CleanIdle /\ PathIdle /\ NameIdle

Next ==
  \/ \E data \in Bodies : PostWebhook(1, data)
  \/ WebhookBody(1)
  \/ WebhookDownload(1)
  \/ GetLatestContext(1)
  \/ Respond(1)

Spec == Init /\ [][Next]_vars

OverlapNext ==
  \E r \in Slots :
    \/ \E data \in OverlapBodies : PostWebhook(r, data)
    \/ WebhookBody(r)
    \/ WebhookDownload(r)
    \/ GetLatestContext(r)
    \/ Respond(r)

SpecOverlap == Init /\ [][OverlapNext]_vars

(***************************************************************************)
(* Properties of the server                                                *)
(***************************************************************************)
\* The text a webhook call extracted: the body, and the attachment texts after it.
RawText(raw, texts) == IF texts = <<>> THEN raw ELSE raw \o <<LF>> \o Join(texts, LF)

\* C1: the context file holds clean_text of the text the last successful webhook
\* call extracted, so its text is a fixed point of clean_text.
ContextFileIsCleanedOutput ==
  lastWrite.done =>
    /\ ctxFile.exists
    /\ ctxFile.text = clean_text(Str(RawText(lastWrite.raw, lastWrite.texts)))
    /\ clean_text(Str(ctxFile.text)) = ctxFile.text

\* C2: a Relayed request one of whose downloads failed still ends with 200 and
\* the context stored.
FailedDownloadIsSkipped ==
  \A r \in Slots :
    (reqs[r].pc = "done" /\ reqs[r].op = "webhook" /\ reqs[r].failed)
      => (reqs[r].status = 200 /\ ctxFile.exists)

LegacyShape(data) ==
  data.t = "dict" /\ "context" \in DOMAIN data.v /\ data.v["context"].t = "str"

RelayedShape(data) ==
  data.t = "dict" /\ "payload" \in DOMAIN data.v /\ data.v["payload"].t = "dict"

\* C3: a body that is malformed JSON or of neither shape is answered with 400.
NeitherShapeIs400 ==
  \A r \in Slots :
    (reqs[r].pc = "done" /\ reqs[r].op = "webhook"
       /\ ~LegacyShape(reqs[r].body) /\ ~RelayedShape(reqs[r].body))
      => reqs[r].status = 400

\* C4: a webhook request answered with 400 has left the context file as it was
\* when the request came in.
RejectionWritesNothing ==
  \A r \in Slots :
    (reqs[r].pc = "done" /\ reqs[r].op = "webhook" /\ reqs[r].status = 400)
      => ctxFile = reqs[r].before

\* A body of neither shape has been refused while the store was Populated.
RejectionWitness ==
  \E r \in Slots :
    /\ reqs[r].pc = "done" /\ reqs[r].op = "webhook" /\ reqs[r].status = 400
    /\ reqs[r].body = Dict(<<>>)
    /\ reqs[r].before.exists /\ reqs[r].before.text # <<>>
    /\ ctxFile = reqs[r].before

CleanInputs == {None} \cup {Str(s) : s \in TextsOver(Alphabet, MaxTextLen)}

CleanInit ==
  /\ cleanIn \in CleanInputs
  /\ cleanOut = <<>>
  /\ cleanTwice = <<>>
  /\ cleanPc = "start"
  /\ ServerIdle /\ PathIdle /\ NameIdle

CleanOnce ==
  /\ cleanPc = "start"
  /\ cleanOut' = clean_text(cleanIn)
  /\ cleanPc' = "once"
  /\ UNCHANGED <<cleanIn, cleanTwice, serverVars, pathVars, nameVars>>

CleanAgain ==
  /\ cleanPc = "once"
  /\ cleanTwice' = clean_text(Str(cleanOut))
  /\ cleanPc' = "twice"
  /\ UNCHANGED <<cleanIn, cleanOut, serverVars, pathVars, nameVars>>

CleanNext == CleanOnce \/ CleanAgain

SpecClean == CleanInit /\ [][CleanNext]_vars

\* C7: clean_text is idempotent on every str: cleaning its own output changes nothing.
CleanIdempotent == (cleanPc = "twice" /\ cleanIn.t = "str") => cleanTwice = cleanOut

\* A str with a CR and a line of white space has been cleaned twice, and the
\* first cleaning changed it.
CleanIdempotentWitness ==
  /\ cleanPc = "twice"
  /\ cleanIn = Str(<<LetterA, CR, TAB, LF>>)
  /\ cleanOut = <<LetterA, LF>>
  /\ cleanTwice = cleanOut

\* Every line of s is empty or white space only.
AllLinesBlank(s) == \A i \in 1..Len(s) : IsSpace(s[i])

\* C8: clean_text("") and clean_text(None) are "", and so is the cleaning of every
\* input whose lines are all blank.
CleanBlankIsEmpty ==
  (cleanPc # "start" /\ (cleanIn.t = "None" \/ AllLinesBlank(cleanIn.v))) => cleanOut = <<>>

(***************************************************************************)
(* SpecPath: _safe_resolve called on a base, a file name and a file system *)
(* with or without symbolic links.                                         *)
(***************************************************************************)
\* Bound: longest file name given to _safe_resolve on its own.
MaxPathLen == 4

DirF == <<InputChar.f>>
DirS == <<InputChar.s>>
DirX == <<InputChar.x>>
LinkL == <<InputChar.l>>

\* The working directory of the calls, for the relative base Path(".").
PathCwd == <<DirF>>

\* The bases: /f, the root, Path(".") and /s, which some tables link to /f.
PathBases ==
  {ParsePath(<<SLASH>> \o DirF), ParsePath(<<SLASH>>), ParsePath(<<DOT>>),
   ParsePath(<<SLASH>> \o DirS)}

\* The symbolic links of the file system: none; /f/l -> /x; /f/l -> x;
\* /f/l -> .. together with /s -> /f.
LinkTables ==
  { <<>>,
    <<DirF, LinkL>> :> ParsePath(<<SLASH>> \o DirX),
    <<DirF, LinkL>> :> ParsePath(DirX),
    (<<DirF, LinkL>> :> ParsePath(DotDot)) @@ (<<DirS>> :> ParsePath(<<SLASH>> \o DirF)) }

\* File names over "/", ".", "f", "x" and "l"; a name that starts with two
\* slashes is left out (POSIX leaves its root to the implementation).
PathNames ==
  {n \in TextsOver({SLASH, DOT, InputChar.f, InputChar.x, InputChar.l}, MaxPathLen) :
     ~(Len(n) >= 2 /\ n[1] = SLASH /\ n[2] = SLASH)}

PathInit ==
  /\ pathLinks \in LinkTables
  /\ pathLinks0 = pathLinks
  /\ pathBase \in PathBases
  /\ pathName \in PathNames
  /\ pathOut = [ok |-> FALSE, path |-> BASE_DIR]
  /\ pathPc = "start"
  /\ ServerIdle /\ CleanIdle /\ NameIdle

SafeResolveCall ==
  /\ pathPc = "start"
  /\ pathOut' = _safe_resolve(pathLinks, PathCwd, pathBase, pathName)
  /\ pathPc' = "done"
  /\ UNCHANGED <<pathLinks, pathLinks0, pathBase, pathName, serverVars, cleanVars, nameVars>>

PathNext == SafeResolveCall

SpecPath == PathInit /\ [][PathNext]_vars

\* c is b or lies below b (both canonical).
Inside(c, b) ==
  /\ Len(b.segs) <= Len(c.segs)
  /\ SubSeq(c.segs, 1, Len(b.segs)) = b.segs

CanonBase == Resolve(pathLinks, PathCwd, pathBase)
CanonJoin == Resolve(pathLinks, PathCwd, PathJoin(pathBase, ParsePath(pathName)))

\* The call raises exactly when the canonical join is neither the canonical
\* base nor below it.
RaisesIffOutside == (~pathOut.ok) <=> ~Inside(CanonJoin, CanonBase)

HasTraversal(name) == \E i \in 1..Len(ParsePath(name).segs) : ParsePath(name).segs[i] = DotDot

PlainSegment(name) ==
  /\ name # <<>> /\ name # <<DOT>> /\ name # DotDot
  /\ \A i \in 1..Len(name) : name[i] # SLASH

\* C9 as stated: raises iff the canonical join is outside the canonical base; a
\* name with a traversal always fails, a plain single-segment name always
\* succeeds; nothing in the file system changes.
SafeResolveAsClaimed ==
  pathPc = "done" =>
    /\ RaisesIffOutside
    /\ HasTraversal(pathName) => ~pathOut.ok
    /\ PlainSegment(pathName) => pathOut.ok
    /\ pathLinks = pathLinks0

\* "../x" with x a plain name that is neither the base's own name nor a symbolic
\* link beside the base, under a base that is not the root.
LeavesBase(name) ==
  LET segs == ParsePath(name).segs
      b == CanonBase.segs
  IN /\ ~ParsePath(name).abs /\ Len(segs) = 2 /\ segs[1] = DotDot /\ segs[2] # DotDot
     /\ b # <<>>
     /\ segs[2] # b[Len(b)]
     /\ Append(SubSeq(b, 1, Len(b) - 1), segs[2]) \notin DOMAIN pathLinks

\* C9 as amended: raises iff the canonical join is outside the canonical base;
\* "../x" fails unless x names the base itself or a symbolic link, or the base is
\* the root; a plain single-segment name succeeds unless it is a symbolic link;
\* nothing in the file system changes.
SafeResolveContract ==
  pathPc = "done" =>
    /\ RaisesIffOutside
    /\ LeavesBase(pathName) => ~pathOut.ok
    /\ (PlainSegment(pathName) /\ Append(CanonBase.segs, pathName) \notin DOMAIN pathLinks)
         => pathOut.ok
    /\ pathLinks = pathLinks0

\* "../x" has been refused under /f, where /f/l links out of the base.
SafeResolveWitness ==
  /\ pathPc = "done"
  /\ pathBase = ParsePath(<<SLASH>> \o DirF)
  /\ pathName = DotDot \o <<SLASH>> \o DirX
  /\ pathLinks # <<>>
  /\ ~pathOut.ok

(***************************************************************************)
(* SpecName: sanitize_filename called on an attachment's "filename".       *)
(***************************************************************************)
\* Bound: longest short file name given to sanitize_filename on its own.
MaxNameLen == 3

Repeat(ch, n) == [i \in 1..n |-> ch]

\* The values of a.get("filename"): absent or null, a number, short names over
\* "/", "\", ".", " " and a letter, and names around the length limit.
NameInputs ==
  {None, Int5}
    \cup {Str(n) : n \in TextsOver({SLASH, BACKSLASH, DOT, SP, LetterA}, MaxNameLen)}
    \cup {Str(Repeat(LetterA, n)) : n \in (NameLimit - 1)..(NameLimit + 2)}
    \cup {Str(<<SP>> \o Repeat(LetterA, NameLimit) \o <<SLASH, DOT>>)}

NameInit ==
  /\ nameIn \in NameInputs
  /\ nameOut = [ok |-> FALSE, name |-> <<>>]
  /\ namePc = "start"
  /\ ServerIdle /\ CleanIdle /\ PathIdle

SanitizeCall ==
  /\ namePc = "start"
  /\ nameOut' = sanitize_filename(nameIn)
  /\ namePc' = "done"
  /\ UNCHANGED <<nameIn, serverVars, cleanVars, pathVars>>

NameNext == SanitizeCall

SpecName == NameInit /\ [][NameNext]_vars

\* file_path = ATTACH_DIR / filename, made canonical.
AttachPath(filename) ==
  Resolve(NoLinks, ServerCwd, PathJoin(ATTACH_DIR, ParsePath(filename)))

\* C10: for every filename of a request (absent, empty, blank, with separators,
\* "." or "..", or too long) sanitize_filename returns a name of 1 to 200
\* characters that is one path segment, and ATTACH_DIR / name is a file directly
\* inside the attachments directory, never that directory or its parent.
SanitizedNameIsSafe ==
  (namePc = "done" /\ nameIn.t \in {"None", "str"}) =>
    /\ nameOut.ok
    /\ Len(nameOut.name) >= 1 /\ Len(nameOut.name) <= NameLimit
    /\ \A i \in 1..Len(nameOut.name) : nameOut.name[i] \notin {SLASH, BACKSLASH}
    /\ AttachPath(nameOut.name).segs = Append(ATTACH_DIR.segs, nameOut.name)

====
